---- MODULE Spec2Model ----
(***************************************************************************)
(* Session registry core of libobmcsession: the SessionManager record map, *)
(* the build transaction (pending slot plus timeout watcher threads) and   *)
(* the SessionItem handles with their cleanup callbacks.                   *)
(*                                                                         *)
(* Threads: one request thread ("main") that runs the public API and the   *)
(* bus method handlers, and one detached watcher thread per                *)
(* startTransaction (manager.cpp sessionBuildTimerStart).                  *)
(*                                                                         *)
(* commitSessionBuild is two steps, before and after its call of the       *)
(* identity directory, so that the watchers and the clock can run while    *)
(* the request thread waits for the answer. Every other function of the    *)
(* request thread is one step. The erase inside the range-for of the       *)
(* removeAll functions is undefined: which later records the loop visits   *)
(* is left open; a crash of the process ends the run and is not a step.    *)
(*                                                                         *)
(* The watcher's reset is one step. Its store of 0 to pendingSessionId is  *)
(* not ordered with the stores of the request thread, which takes no lock: *)
(* for a startTransaction that follows a timeout the store may land last   *)
(* (StoredPendingIds).                                                     *)
(***************************************************************************)
EXTENDS Integers, Sequences, FiniteSets, TLC

\* ------------------------------------------------------------------ bounds
\* largest clock reading (hash of the timestamp) generateSessionId may see
MaxStamp == 1
\* width of SessionIdentifier (std::size_t) in bits in the modelled build
IdBits == 8
\* watcher threads that may be alive at the same time
MaxWatchers == 2
\* the clock is observed every TickLen time units
TickLen == 10

\* ------------------------------------------------------- program constants
\* wait_for(traksactionLock, 20s, ...)
Timeout == 20
\* std::hash of the registry's service name (a fixed value per instance)
serviceNameHash == 1
\* the SessionType the registry was constructed with, and another one
OwnType == "HostConsole"
OtherType == "Redfish"

NoOwner == "<none>"
KnownUsers == {"admin"}
UserNames == {"", "admin", "ghost"}
Addresses == {"", "10.0.0.1"}
CreateAddresses == {"10.0.0.1"}
TransactionAddress == "0.0.0.0"

TimeHashes == 0 .. MaxStamp
Modulus == 2 ^ IdBits

\* ------------------------------------------------ identifiers and hex text
RECURSIVE Xor(_, _)
Xor(a, b) ==
    IF a = 0 THEN b
    ELSE IF b = 0 THEN a
    ELSE (((a % 2) + (b % 2)) % 2) + 2 * Xor(a \div 2, b \div 2)

HexChars == <<"0", "1", "2", "3", "4", "5", "6", "7",
              "8", "9", "a", "b", "c", "d", "e", "f">>

\* sizeof(sessionId) * 2, sizeof being the bytes that hold IdBits bits
HexWidth == 2 * ((IdBits + 7) \div 8)

RECURSIVE hexDigits(_)
hexDigits(n) ==
    IF n < 16 THEN <<HexChars[n + 1]>>
    ELSE Append(hexDigits(n \div 16), HexChars[(n % 16) + 1])

RECURSIVE padLeft(_, _)
padLeft(s, w) == IF Len(s) >= w THEN s ELSE padLeft(<<"0">> \o s, w)

\* variant: the digits are not padded to the full width
hexSessionId_unpadded(sessionId) == hexDigits(sessionId)

\* stream << setfill('0') << setw(sizeof(sessionId) * 2) << hex << sessionId
hexSessionId(sessionId) == padLeft(hexDigits(sessionId), HexWidth)

\* std::invalid_argument and std::out_of_range of std::stoull
ParseError == -1
RangeError == -2

UpperHexChars == <<"A", "B", "C", "D", "E", "F">>

HexValue(c) ==
    IF \E i \in 1 .. 16 : HexChars[i] = c
    THEN (CHOOSE i \in 1 .. 16 : HexChars[i] = c) - 1
    ELSE IF \E i \in 1 .. 6 : UpperHexChars[i] = c
    THEN (CHOOSE i \in 1 .. 6 : UpperHexChars[i] = c) + 9
    ELSE ParseError

\* the digits of strtoull: the longest run of hexadecimal digits; no digit
\* at all is invalid_argument, a value that does not fit unsigned long
\* long (as wide as SessionIdentifier in the modelled build) out_of_range
RECURSIVE parsePrefix(_, _, _)
parsePrefix(s, acc, seen) ==
    IF s = <<>> \/ HexValue(Head(s)) = ParseError
    THEN (IF seen THEN acc ELSE ParseError)
    ELSE parsePrefix(Tail(s),
                     IF acc = RangeError
                        \/ acc * 16 + HexValue(Head(s)) >= Modulus
                     THEN RangeError
                     ELSE acc * 16 + HexValue(Head(s)),
                     TRUE)

RECURSIVE skipSpace(_)
skipSpace(s) ==
    IF s # <<>> /\ Head(s) = " " THEN skipSpace(Tail(s)) ELSE s

\* std::stoull(hexSessionId, nullptr, 16): leading white space, an optional
\* sign, an optional 0x, then the longest hexadecimal prefix; what follows
\* the prefix is ignored (the position argument is nullptr), and a minus
\* sign negates the value in unsigned arithmetic
parseSessionId(s) ==
    LET t == skipSpace(s)
        signed == t # <<>> /\ Head(t) \in {"+", "-"}
        u == IF signed THEN Tail(t) ELSE t
        v == IF Len(u) >= 3 /\ u[1] = "0" /\ u[2] \in {"x", "X"}
                /\ HexValue(u[3]) # ParseError
             THEN Tail(Tail(u)) ELSE u
        n == parsePrefix(v, 0, FALSE)
    IN  IF n \in {ParseError, RangeError} THEN n
        ELSE IF signed /\ Head(t) = "-" THEN (Modulus - n) % Modulus
        ELSE n

\* dbus::utils::getLastSegmentFromObjectPath: what follows the last "/"
RECURSIVE getLastSegmentFromObjectPath(_)
getLastSegmentFromObjectPath(objectPath) ==
    IF \A i \in DOMAIN objectPath : objectPath[i] # "/" THEN objectPath
    ELSE getLastSegmentFromObjectPath(Tail(objectPath))

\* SessionItem::retrieveIdFromObjectPath
retrieveIdFromObjectPath(objectPath) ==
    parseSessionId(getLastSegmentFromObjectPath(objectPath))

\* timeHash ^ (serviceNameHash << 1), in std::size_t arithmetic, for a
\* registry whose service name hashes to nameHash
sessionIdOf(timeHash, nameHash) ==
    Xor(timeHash % Modulus, (nameHash * 2) % Modulus)

\* the same for this registry
idOfStamp(timeHash) == sessionIdOf(timeHash, serviceNameHash)

\* generateSessionId: a result of 0 makes the function call itself again,
\* which reads the clock again; stamps is the sequence of clock readings
RECURSIVE generateSessionId(_)
generateSessionId(stamps) ==
    IF idOfStamp(Head(stamps)) = 0
    THEN generateSessionId(Tail(stamps))
    ELSE idOfStamp(Head(stamps))

\* the clock readings one call of generateSessionId consumes: a reading
\* that gives 0 is followed by the next reading of the clock
StampRuns ==
    {IF idOfStamp(t) # 0 THEN <<t>> ELSE <<t, (t + 1) % (MaxStamp + 1)>> :
       t \in TimeHashes}

SessionIds == {idOfStamp(t) : t \in TimeHashes} \ {0}


\* ------------------------------------------------------------------ state
VARIABLES
    sessionItems,          \* SessionItemDict: id -> SessionItem
    pendingSessionBuild,   \* std::atomic<bool>
    pendingSessionId,      \* SessionIdentifier (plain member)
    watchers,              \* the detached timerSessionComplete threads
    commitCall,            \* commitSessionBuild waiting for the directory
    pendingAge,            \* history: time since the pending slot was set
    last                   \* history: the step just taken

vars == <<sessionItems, pendingSessionBuild, pendingSessionId, watchers,
          commitCall, pendingAge, last>>

NoFn == "<nullptr>"
CleanupFns == {"cleanupFn"}
NoCall == [active |-> FALSE, username |-> "", remoteIPAddr |-> "",
           it |-> 0, raced |-> FALSE]
\* a watcher thread waits in wait_for with r time units left of its 20 s;
\* the threads are detached and anonymous: watchers lists their r, the
\* oldest thread first
Positions == 0 .. Timeout
NoWatchers == <<>>
NoCalls == [i \in SessionIds |-> 0]
\* variant: the thread stays in the sequence
Drop_kept(q, w) == q

Drop(q, w) == [j \in 1 .. Len(q) - 1 |-> IF j < w THEN q[j] ELSE q[j + 1]]

\* what the identity directory (ObjectMapper GetObject) can answer
DirectoryReplies(userName) ==
    IF userName = "" THEN {"found"}
    ELSE IF userName \in KnownUsers THEN {"found", "error"}
    ELSE {"empty"}

\* ------------------------------------------------------------ SessionItem
\* variant: a failing directory call is taken for an unknown user
adjustSessionOwner_failureAsUnknown(item, userName, reply) ==
    IF reply \in {"error", "empty"}
    THEN [exc |-> "UnknownUser", item |-> item]
    ELSE [exc |-> "none", item |-> [item EXCEPT !.owner = userName]]

\* SessionItem::adjustSessionOwner
adjustSessionOwner(item, userName, reply) ==
    IF reply = "error" THEN [exc |-> "SdBusError", item |-> item]
    ELSE IF reply = "empty" THEN [exc |-> "UnknownUser", item |-> item]
    ELSE [exc |-> "none", item |-> [item EXCEPT !.owner = userName]]

\* variant: the remote address is validated but not stored
setSessionMetadata_addressDropped(item, username, remoteIPAddr, reply) ==
    IF reply = "error" THEN [exc |-> "SdBusError", item |-> item]
    ELSE IF reply = "empty" THEN [exc |-> "UnknownUser", item |-> item]
    ELSE IF remoteIPAddr = ""
    THEN [exc |-> "InvalidArgument", item |-> [item EXCEPT !.owner = username]]
    ELSE [exc |-> "none", item |-> [item EXCEPT !.owner = username]]

\* SessionItem::setSessionMetadata
setSessionMetadata(item, username, remoteIPAddr, reply) ==
    LET adj == adjustSessionOwner(item, username, reply)
    IN  IF adj.exc # "none" THEN adj
        ELSE IF remoteIPAddr = ""
             THEN [exc |-> "InvalidArgument", item |-> adj.item]
             ELSE [exc |-> "none",
                   item |-> [adj.item EXCEPT !.remoteIPAddr = remoteIPAddr]]

\* SessionItem::resetCleanupFn
resetCleanupFn(item, cleanup) == [item EXCEPT !.cleanupFn = cleanup]

\* SessionItem::getOwner
getOwner(item) ==
    IF item.owner = NoOwner THEN [exc |-> "logic_error", value |-> ""]
    ELSE [exc |-> "none", value |-> item.owner]

\* SessionItem::~SessionItem: the cleanup calls made, by argument
dtorCalls(item) ==
    IF item.cleanupFn # NoFn
    THEN LET arg == parseSessionId(item.sessionID)
         IN  [i \in SessionIds |-> IF i = arg THEN 1 ELSE 0]
    ELSE NoCalls

\* the cleanup calls made when the handles stored under the keys D die
destroyAll(items, D) ==
    LET calls == [d \in D |-> dtorCalls(items[d])]
    IN  [i \in SessionIds |-> Cardinality({d \in D : calls[d][i] = 1})]

\* --------------------------------------------------------- SessionManager
\* variant: the pending flag is not consulted
isSessionBuildPending_ignored == FALSE

\* SessionManager::isSessionBuildPending
isSessionBuildPending == pendingSessionBuild

\* variant: the handle is not stored
emplace_dropped(items, k, v) == items

\* std::map::emplace: no effect when the key is already present
emplace(items, k, v) ==
    IF k \in DOMAIN items THEN items
    ELSE [x \in DOMAIN items \cup {k} |-> IF x = k THEN v ELSE items[x]]

\* variant: the map is cleared
erase_all(items, D) == [x \in {} |-> items[x]]

\* std::map::erase
erase(items, D) == [x \in DOMAIN items \ D |-> items[x]]

\* variant: the handle is stored before its owner is resolved
create_recordLeft(userName, remoteAddress, stamps, reply) ==
    IF isSessionBuildPending
    THEN [exc |-> "logic_error", id |-> 0, items |-> sessionItems,
          cleaned |-> NoCalls]
    ELSE LET sessionId == generateSessionId(stamps)
             session == [sessionID |-> hexSessionId(sessionId),
                         sessionType |-> OwnType,
                         remoteIPAddr |-> remoteAddress,
                         owner |-> NoOwner,
                         cleanupFn |-> NoFn]
             adj == IF userName # ""
                    THEN adjustSessionOwner(session, userName, reply)
                    ELSE [exc |-> "none", item |-> session]
         IN  [exc |-> "none",
              id |-> IF adj.exc # "none" THEN 0 ELSE sessionId,
              items |-> emplace(sessionItems, sessionId, adj.item),
              cleaned |-> NoCalls]

\* SessionManager::create(userName, remoteAddress); on the return of 0 the
\* handle made for the call is released, which runs its destructor
create(userName, remoteAddress, stamps, reply) ==
    IF isSessionBuildPending
    THEN [exc |-> "logic_error", id |-> 0, items |-> sessionItems,
          cleaned |-> NoCalls]
    ELSE LET sessionId == generateSessionId(stamps)
             session == [sessionID |-> hexSessionId(sessionId),
                         sessionType |-> OwnType,
                         remoteIPAddr |-> remoteAddress,
                         owner |-> NoOwner,
                         cleanupFn |-> NoFn]
             adj == IF userName # ""
                    THEN adjustSessionOwner(session, userName, reply)
                    ELSE [exc |-> "none", item |-> session]
         IN  IF adj.exc # "none"
             THEN [exc |-> "none", id |-> 0, items |-> sessionItems,
                   cleaned |-> dtorCalls(adj.item)]
             ELSE [exc |-> "none", id |-> sessionId,
                   items |-> emplace(sessionItems, sessionId, adj.item),
                   cleaned |-> NoCalls]

\* SessionManager::create(userName, remoteAddress, cleanupFn)
createWithCleanup(userName, remoteAddress, cleanup, stamps, reply) ==
    LET c == create(userName, remoteAddress, stamps, reply)
    IN  IF c.exc # "none" \/ c.id = 0 THEN c
        ELSE [c EXCEPT !.items[c.id] = resetCleanupFn(@, cleanup)]

\* the sessions of other registries that discovery can report
RemoteId == Modulus - 1
\* pendingSessionId has no initialiser: what it holds after construction
Garbage == Modulus - 2
ownServiceName == "xyz.openbmc_project.Session.own"
RemoteSessions ==
    {[id |-> RemoteId, username |-> "admin", remoteAddress |-> "10.0.0.1",
      type |-> OtherType,
      serviceName |-> "xyz.openbmc_project.Session.peer",
      objectPath |-> <<"/", "session_manager", "/", "peer", "/">>
                       \o hexSessionId(RemoteId),
      isOwn |-> FALSE]}
\* one answer of the bus to findSessionItemObjects plus getSessionsInfo
\* and to the Close calls sent afterwards (failing: the calls that throw)
Discoveries ==
    {[ok |-> TRUE, found |-> {}, failing |-> {}],
     [ok |-> TRUE, found |-> RemoteSessions, failing |-> {}],
     [ok |-> TRUE, found |-> RemoteSessions, failing |-> {RemoteId}],
     [ok |-> FALSE, found |-> {}, failing |-> {}]}
NoDiscovery == [ok |-> TRUE, found |-> {}, failing |-> {}]

\* SessionManager::getSessionManagerObjectPath: the path of the manager
\* object, "/", the slug
getSessionManagerObjectPath == <<"/", "session_manager", "/", "own">>

\* SessionManager::getSessionObjectPath
getSessionObjectPath(sessionId) ==
    getSessionManagerObjectPath \o <<"/">> \o hexSessionId(sessionId)

\* SessionManager::getAllSessions: the own records first (getOwner throws
\* for a record without owner), then the discovered sessions whose id is
\* not in the own map
getAllSessions(items, disc) ==
    IF \E k \in DOMAIN items : getOwner(items[k]).exc # "none"
    THEN [exc |-> "logic_error", list |-> {}]
    ELSE IF ~disc.ok THEN [exc |-> "SdBusError", list |-> {}]
    ELSE [exc |-> "none",
          list |-> {[id |-> k, username |-> getOwner(items[k]).value,
                     remoteAddress |-> items[k].remoteIPAddr,
                     type |-> items[k].sessionType,
                     serviceName |-> ownServiceName,
                     objectPath |-> getSessionObjectPath(k),
                     isOwn |-> TRUE] : k \in DOMAIN items}
                   \cup {r \in disc.found : r.id \notin DOMAIN items}]

\* variant: withCleanup is ignored, an own record keeps its callback
remove_cleanupKept(items, sessionId, withCleanup, localLookup, disc) ==
    IF sessionId \in DOMAIN items
    THEN [exc |-> "none", ret |-> TRUE, items |-> erase(items, {sessionId}),
          cleaned |-> dtorCalls(items[sessionId]), sent |-> {}]
    ELSE IF localLookup
    THEN [exc |-> "none", ret |-> FALSE, items |-> items,
          cleaned |-> NoCalls, sent |-> {}]
    ELSE LET all == getAllSessions(items, disc)
         IN  IF all.exc # "none"
             THEN [exc |-> all.exc, ret |-> FALSE, items |-> items,
                   cleaned |-> NoCalls, sent |-> {}]
             ELSE IF \E e \in all.list : e.id = sessionId
             THEN IF sessionId \in disc.failing
                  THEN [exc |-> "SdBusError", ret |-> FALSE, items |-> items,
                        cleaned |-> NoCalls, sent |-> {}]
                  ELSE [exc |-> "none", ret |-> TRUE, items |-> items,
                        cleaned |-> NoCalls,
                        sent |-> {<<sessionId, withCleanup>>}]
             ELSE [exc |-> "none", ret |-> FALSE, items |-> items,
                   cleaned |-> NoCalls, sent |-> {}]

NoInfo == [id |-> 0, username |-> "", remoteAddress |-> "", type |-> ""]

\* SessionManager::getSessionInfo: the set of its possible outcomes. For an
\* id that is not in the own map the function reads sessIt->second of the
\* end iterator before it tests the iterator, which is undefined: the call
\* crashes, or goes on to the discovery of the other registries.
getSessionInfo(items, id, disc) ==
    IF id = 0 THEN {[exc |-> "none", info |-> NoInfo]}
    ELSE IF id \in DOMAIN items
    THEN IF getOwner(items[id]).exc # "none"
         THEN {[exc |-> getOwner(items[id]).exc, info |-> NoInfo]}
         ELSE {[exc |-> "none",
                info |-> [id |-> id, username |-> getOwner(items[id]).value,
                          remoteAddress |-> items[id].remoteIPAddr,
                          type |-> items[id].sessionType]]}
    ELSE {[exc |-> "crash", info |-> NoInfo]} \cup
         (IF ~disc.ok THEN {[exc |-> "SdBusError", info |-> NoInfo]}
          ELSE IF \A r \in disc.found : r.id # id
          THEN {[exc |-> "invalid_argument", info |-> NoInfo]}
          ELSE {[exc |-> "none",
                 info |-> [id |-> r.id, username |-> r.username,
                           remoteAddress |-> r.remoteAddress,
                           type |-> r.type]] : r \in {x \in disc.found :
                                                         x.id = id}})

\* SessionManager::remove(sessionId, withCleanup, localLookup)
remove(items, sessionId, withCleanup, localLookup, disc) ==
    IF sessionId \in DOMAIN items
    THEN LET sessionItem == IF ~withCleanup
                            THEN resetCleanupFn(items[sessionId], NoFn)
                            ELSE items[sessionId]
         IN  [exc |-> "none", ret |-> TRUE,
              items |-> erase(items, {sessionId}),
              cleaned |-> dtorCalls(sessionItem), sent |-> {}]
    ELSE IF localLookup
    THEN [exc |-> "none", ret |-> FALSE, items |-> items,
          cleaned |-> NoCalls, sent |-> {}]
    ELSE LET all == getAllSessions(items, disc)
         IN  IF all.exc # "none"
             THEN [exc |-> all.exc, ret |-> FALSE, items |-> items,
                   cleaned |-> NoCalls, sent |-> {}]
             ELSE IF \E e \in all.list : e.id = sessionId
             THEN IF sessionId \in disc.failing
                  THEN [exc |-> "SdBusError", ret |-> FALSE, items |-> items,
                        cleaned |-> NoCalls, sent |-> {}]
                  ELSE [exc |-> "none", ret |-> TRUE, items |-> items,
                        cleaned |-> NoCalls,
                        sent |-> {<<sessionId, withCleanup>>}]
             ELSE [exc |-> "none", ret |-> FALSE, items |-> items,
                   cleaned |-> NoCalls, sent |-> {}]

\* variant: the pending flag is not tested before the lookup
commitSessionBuildFind_unguarded ==
    IF pendingSessionId \notin DOMAIN sessionItems
    THEN "InvalidArgument" ELSE "none"

\* SessionManager::commitSessionBuild, up to the lookup of the pending id
commitSessionBuildFind ==
    IF ~isSessionBuildPending THEN "InternalFailure"
    ELSE IF pendingSessionId \notin DOMAIN sessionItems
    THEN "InvalidArgument" ELSE "none"

\* variant: the record of an unknown user is kept
commitSessionBuild_recordKept(items, call, reply) ==
    LET m == setSessionMetadata(items[call.it], call.username,
                                call.remoteIPAddr, reply)
    IN  IF m.exc = "UnknownUser"
        THEN [exc |-> "none", items |-> items, cleaned |-> NoCalls,
              success |-> TRUE]
        ELSE IF m.exc # "none"
        THEN [exc |-> "InternalFailure",
              items |-> [items EXCEPT ![call.it] = m.item],
              cleaned |-> NoCalls, success |-> FALSE]
        ELSE [exc |-> "none", items |-> [items EXCEPT ![call.it] = m.item],
              cleaned |-> NoCalls, success |-> TRUE]

\* SessionManager::commitSessionBuild, from the directory's reply on
commitSessionBuild(items, call, reply) ==
    LET m == setSessionMetadata(items[call.it], call.username,
                                call.remoteIPAddr, reply)
    IN  IF m.exc = "UnknownUser"
        THEN LET r == remove(items, call.it, FALSE, TRUE, NoDiscovery)
             IN  [exc |-> "none", items |-> r.items, cleaned |-> r.cleaned,
                  success |-> TRUE]
        ELSE IF m.exc # "none"
        THEN [exc |-> "InternalFailure",
              items |-> [items EXCEPT ![call.it] = m.item],
              cleaned |-> NoCalls, success |-> FALSE]
        ELSE [exc |-> "none", items |-> [items EXCEPT ![call.it] = m.item],
              cleaned |-> NoCalls, success |-> TRUE]

SetMin(S) == CHOOSE x \in S : \A y \in S : x <= y

\* the test of the first loop of removeAll(userName),
\* removeAllByRemoteAddress(remoteAddress) and removeAll(type)
matchesItem(kind, key, item) ==
    CASE kind = "user" -> getOwner(item).exc = "none"
                          /\ key = getOwner(item).value
      [] kind = "addr" -> key = item.remoteIPAddr
      [] kind = "type" -> key = item.sessionType

\* the test of their second loop, over the list of getAllSessions
matchesInfo(kind, key, info) ==
    CASE kind = "user" -> key = info.serviceName
      [] kind = "addr" -> key = info.remoteAddress
      [] kind = "type" -> key = info.type

\* The first loop erases the element the range-for stands on, after which
\* the iterator is invalid: the keys at and before the first erased one are
\* visited in order, which of the later keys are visited is not defined.
Visits(items, kind, key) ==
    LET M == {k \in DOMAIN items : matchesItem(kind, key, items[k])}
    IN  {V \in SUBSET DOMAIN items :
           \A k \in DOMAIN items : (M = {} \/ k <= SetMin(M)) => k \in V}

\* removeAll(userName), removeAllByRemoteAddress, removeAll(type)
removeAllBy(items, kind, key, visited, disc) ==
    LET throwers == IF kind = "user"
                    THEN {k \in visited : getOwner(items[k]).exc # "none"}
                    ELSE {}
        erased == {k \in visited :
                     /\ matchesItem(kind, key, items[k])
                     /\ throwers # {} => k < SetMin(throwers)}
        left == erase(items, erased)
        all == getAllSessions(left, disc)
        hits == {e \in all.list : matchesInfo(kind, key, e)}
        base == [exc |-> "none", count |-> 0, items |-> left,
                 cleaned |-> destroyAll(items, erased), sent |-> {}]
    IN  IF throwers # {} THEN [base EXCEPT !.exc = "logic_error"]
        ELSE IF all.exc # "none" THEN [base EXCEPT !.exc = all.exc]
        ELSE IF \E e \in hits : e.id \in disc.failing
        THEN [base EXCEPT !.exc = "SdBusError",
                          !.sent = {<<e.id, TRUE>> : e \in
                                      {h \in hits : \A f \in hits :
                                         f.id \in disc.failing => h.id < f.id}}]
        ELSE [base EXCEPT !.count = Cardinality(erased) + Cardinality(hits),
                          !.sent = {<<e.id, TRUE>> : e \in hits}]

\* removeAll()
removeAllEvery(items, disc) ==
    LET base == [exc |-> "none", count |-> Cardinality(DOMAIN items),
                 items |-> erase(items, DOMAIN items),
                 cleaned |-> destroyAll(items, DOMAIN items), sent |-> {}]
        ok == {e \in disc.found : e.id \notin disc.failing}
    IN  IF ~disc.ok THEN [base EXCEPT !.exc = "SdBusError", !.count = 0]
        ELSE [base EXCEPT !.count = @ + Cardinality(ok),
                          !.sent = {<<e.id, TRUE>> : e \in ok}]

\* variant: every step is made with cvmTransaction held
Step_lockHeld(op, res, id, cleaned) ==
    [op |-> op, res |-> res, id |-> id, wc |-> TRUE, reply |-> "",
     cleaned |-> cleaned, raced |-> FALSE, age |-> 0, w |-> 0,
     thread |-> IF op = "timeout" THEN "watcher" ELSE "main",
     locked |-> TRUE]

\* the step record kept in last
Step(op, res, id, cleaned) ==
    [op |-> op, res |-> res, id |-> id, wc |-> TRUE, reply |-> "",
     cleaned |-> cleaned, raced |-> FALSE, age |-> 0, w |-> 0,
     thread |-> IF op = "timeout" THEN "watcher" ELSE "main",
     \* only the watcher thread ever locks cvmTransaction; wait_for gives
     \* the lock back to it on either return
     locked |-> (op \in {"timeout", "wake"})]

Init ==
    /\ sessionItems = <<>>
    /\ pendingSessionBuild = FALSE
    /\ pendingSessionId \in {0, Garbage}
    /\ watchers = NoWatchers
    /\ commitCall = NoCall
    /\ pendingAge = 0
    /\ last = Step("init", "ok", 0, NoCalls)

MainIdle == ~commitCall.active

\* The clock is a high-resolution one and the source does not address two
\* live sessions with one identifier: the readings drawn for a call are
\* those whose identifier is not in the map.
Fresh(id) == id \notin DOMAIN sessionItems

\* create(userName, remoteAddress) and create(userName, remoteAddress, fn)
Create(userName, remoteAddress, cleanup, stamps, reply) ==
    /\ MainIdle
    /\ \E c \in {IF cleanup = NoFn
                THEN create(userName, remoteAddress, stamps, reply)
                ELSE createWithCleanup(userName, remoteAddress, cleanup,
                                       stamps, reply)} :
           /\ Fresh(c.id)
           /\ sessionItems' = c.items
           /\ last' = Step("create",
                           IF c.exc # "none" THEN c.exc
                           ELSE IF c.id = 0 THEN "zero" ELSE "ok",
                           c.id, c.cleaned)
    /\ UNCHANGED <<pendingSessionBuild, pendingSessionId, watchers,
                   commitCall, pendingAge>>

alive == Len(watchers)

\* this->pendingSessionId = sessionId in sessionBuildTimerStart is a plain
\* store the request thread makes without cvmTransaction. A watcher that
\* has just timed out may still be inside resetPendginSessionBuild, between
\* its stores of false to the flag and of 0 to the identifier: its store
\* of 0 then lands after the request thread's. The set holds the values the
\* identifier can have when startTransaction returns.
StoredPendingIds(sessionId) ==
    IF last.op = "timeout" THEN {sessionId, 0} ELSE {sessionId}

\* startTransaction() and startTransaction(cleanupFn); the second half is
\* sessionBuildTimerStart: the slot is set and a thread is started, which
\* locks cvmTransaction and enters wait_for(lock, 20s, predicate)
StartTransaction(cleanup, stamps) ==
    /\ MainIdle
    /\ LET c == create("", TransactionAddress, stamps, "found")
       IN  IF c.exc # "none"
           THEN /\ last' = Step("startTransaction", c.exc, 0, NoCalls)
                /\ UNCHANGED <<sessionItems, pendingSessionBuild,
                               pendingSessionId, watchers, pendingAge>>
           ELSE /\ alive < MaxWatchers
                /\ Fresh(c.id)
                /\ sessionItems' =
                     IF cleanup = NoFn THEN c.items
                     ELSE [c.items EXCEPT ![c.id] = resetCleanupFn(@, cleanup)]
                /\ pendingSessionBuild' = TRUE
                /\ pendingSessionId' \in StoredPendingIds(c.id)
                /\ watchers' = Append(watchers, Timeout)
                /\ pendingAge' = 0
                /\ last' = Step("startTransaction", "ok", c.id, NoCalls)
    /\ UNCHANGED commitCall

\* variant: the identifier is cleared, the flag is left set
resetPendginSessionBuild_flagKept ==
    /\ pendingSessionBuild' = pendingSessionBuild
    /\ pendingSessionId' = 0
    /\ pendingAge' = pendingAge

\* resetPendginSessionBuild (its cvTransaction.notify_all wakes the
\* watchers, which then run WatcherWake)
resetPendginSessionBuild ==
    /\ pendingSessionBuild' = FALSE
    /\ pendingSessionId' = 0
    /\ pendingAge' = 0          \* history

ResetPendingSessionBuild ==
    /\ MainIdle
    /\ resetPendginSessionBuild
    /\ last' = Step("reset", "ok", pendingSessionId, NoCalls)
    /\ UNCHANGED <<sessionItems, commitCall, watchers>>

\* obmcsesCreateTransaction, obmcsesCreateTransactionWithCleanup and
\* obmcsesCreateTransactionWithFCleanup of the C adaptor: startTransaction
\* in a try block whose handler calls resetPendginSessionBuild and returns
\* EPERM
ObmcsesCreateTransaction(cleanup, stamps) ==
    IF create("", TransactionAddress, stamps, "found").exc # "none"
    THEN /\ MainIdle
         /\ resetPendginSessionBuild
         /\ last' = Step("obmcsesCreateTransaction", "EPERM",
                         pendingSessionId, NoCalls)
         /\ UNCHANGED <<sessionItems, watchers, commitCall>>
    ELSE StartTransaction(cleanup, stamps)

\* commitSessionBuild up to the call of the identity directory
CommitBegin(username, remoteIPAddr) ==
    /\ MainIdle
    /\ IF commitSessionBuildFind # "none"
       THEN /\ last' = Step("commit", commitSessionBuildFind,
                            pendingSessionId, NoCalls)
            /\ UNCHANGED commitCall
       ELSE /\ commitCall' = [active |-> TRUE, username |-> username,
                              remoteIPAddr |-> remoteIPAddr,
                              it |-> pendingSessionId, raced |-> FALSE]
            /\ last' = Step("commitBegin", "call", pendingSessionId, NoCalls)
    /\ UNCHANGED <<sessionItems, pendingSessionBuild, pendingSessionId,
                   watchers, pendingAge>>

\* the directory answers and commitSessionBuild runs to its end
CommitFinish(reply) ==
    /\ commitCall.active
    /\ LET c == commitSessionBuild(sessionItems, commitCall, reply)
       IN  /\ sessionItems' = c.items
           /\ IF c.success
              THEN resetPendginSessionBuild
              ELSE UNCHANGED <<pendingSessionBuild, pendingSessionId,
                               pendingAge>>
           /\ last' = [Step("commit", IF c.success THEN "ok" ELSE c.exc,
                            commitCall.it, c.cleaned)
                       EXCEPT !.reply = reply, !.raced = commitCall.raced,
                              !.wc = (commitCall.it \in DOMAIN c.items)]
    /\ commitCall' = NoCall
    /\ UNCHANGED watchers

\* remove(sessionId, withCleanup, localLookup)
Remove(sessionId, withCleanup, localLookup, disc) ==
    /\ MainIdle
    /\ \E r \in {remove(sessionItems, sessionId, withCleanup, localLookup,
                       disc)} :
           /\ sessionItems' = r.items
           /\ last' = [Step("remove",
                            IF r.exc # "none" THEN r.exc
                            ELSE IF r.ret THEN "true" ELSE "false",
                            sessionId, r.cleaned)
                       EXCEPT !.wc = (sessionId \in DOMAIN sessionItems
                                        => withCleanup)]
    /\ UNCHANGED <<pendingSessionBuild, pendingSessionId, watchers,
                   commitCall, pendingAge>>

\* variant: the callback cleared in advance is not put back
close_notRestored(items, this, handle) ==
    LET sessionId == parseSessionId(this.sessionID)
        cleanupFnPtr == this.cleanupFn
        cleared == IF ~handle /\ cleanupFnPtr # NoFn
                   THEN resetCleanupFn(this, NoFn) ELSE this
        stored == IF sessionId \in DOMAIN items
                  THEN [items EXCEPT ![sessionId] = cleared] ELSE items
        r == remove(stored, sessionId, handle, TRUE, NoDiscovery)
    IN  [exc |-> IF ~r.ret THEN "InternalFailure" ELSE r.exc,
         ret |-> r.ret, items |-> r.items, cleaned |-> r.cleaned,
         sent |-> r.sent, this |-> cleared]

\* SessionItem::close(handle), the bus method Close, called on the handle
\* this of a registry whose map is items; a record of the map under the
\* handle's identifier is this handle. The result's this is the handle
\* after the call (when the call fails: after a success it is gone).
close(items, this, handle) ==
    LET sessionId == parseSessionId(this.sessionID)
        cleanupFnPtr == this.cleanupFn
        cleared == IF ~handle /\ cleanupFnPtr # NoFn
                   THEN resetCleanupFn(this, NoFn) ELSE this
        stored == IF sessionId \in DOMAIN items
                  THEN [items EXCEPT ![sessionId] = cleared] ELSE items
        r == remove(stored, sessionId, handle, TRUE, NoDiscovery)
    IN  [exc |-> IF ~r.ret THEN "InternalFailure" ELSE r.exc,
         ret |-> r.ret, items |-> r.items, cleaned |-> r.cleaned,
         sent |-> r.sent,
         this |-> IF ~r.ret THEN resetCleanupFn(cleared, cleanupFnPtr)
                  ELSE cleared]

Close(key, handle) ==
    /\ MainIdle
    /\ key \in DOMAIN sessionItems
    /\ \E r \in {close(sessionItems, sessionItems[key], handle)} :
           /\ sessionItems' = r.items
           /\ last' = [Step("close", IF r.exc # "none" THEN r.exc ELSE "ok",
                            key, r.cleaned)
                       EXCEPT !.wc = handle]
    /\ UNCHANGED <<pendingSessionBuild, pendingSessionId, watchers,
                   commitCall, pendingAge>>

\* removeAll(userName), removeAllByRemoteAddress, removeAll(type), removeAll()
RemoveAll(kind, key, visited, disc) ==
    /\ MainIdle
    /\ \E r \in {IF kind = "all" THEN removeAllEvery(sessionItems, disc)
                ELSE removeAllBy(sessionItems, kind, key, visited, disc)} :
           /\ sessionItems' = r.items
           /\ last' = Step("removeAll", IF r.exc # "none" THEN r.exc ELSE "ok",
                           0, r.cleaned)
    /\ UNCHANGED <<pendingSessionBuild, pendingSessionId, watchers,
                   commitCall, pendingAge>>

\* the arguments of remove that make a difference: withCleanup for a record
\* of the own map, localLookup and the bus's answer for any other id
RemoveArgs(id) ==
    IF id \in DOMAIN sessionItems
    THEN {<<wc, FALSE, NoDiscovery>> : wc \in BOOLEAN}
    ELSE {<<TRUE, TRUE, NoDiscovery>>} \cup
         {<<TRUE, FALSE, d>> : d \in Discoveries}

RemoveAllKeys ==
    {<<"user", "admin">>, <<"addr", "10.0.0.1">>, <<"type", OwnType>>,
     <<"type", OtherType>>, <<"all", "">>}

\* the answers of the bus that make a difference to a removeAll: what is
\* discovered matters to removeAll() and when a discovered session can match
RemoveAllAnswers(kind, key) ==
    IF kind = "all" \/ \E r \in RemoteSessions : matchesInfo(kind, key, r)
    THEN Discoveries
    ELSE {d \in Discoveries : d.found = {}}

\* The shared_ptr<SessionManager> that keep the registry alive: the
\* adaptor's static managerPtr (external), the managerPtr member of every
\* SessionItem, and the copy each watcher thread's lambda captured.
useCount(items, threads, external) ==
    (IF external THEN 1 ELSE 0) + Cardinality(DOMAIN items) + Len(threads)

\* obmcsesManagerClose: managerPtr.reset(). The registry is destroyed, and
\* with it sessionItems and the handles in it, when that was the last
\* shared_ptr to it. The call ends the use of the registry through the
\* adaptor; it is applied to a state, it is no step.
obmcsesManagerClose(items, threads) ==
    IF useCount(items, threads, FALSE) = 0
    THEN [destroyed |-> TRUE, items |-> erase(items, DOMAIN items),
          cleaned |-> destroyAll(items, DOMAIN items)]
    ELSE [destroyed |-> FALSE, items |-> items, cleaned |-> NoCalls]

\* ---------------------------------------------------------------- watchers
\* woken (notify_all, spuriously, or by the end of the wait) with the
\* predicate true: wait_for returns true and the thread ends
WatcherWake(w) ==
    /\ w \in DOMAIN watchers
    /\ ~pendingSessionBuild
    /\ watchers' = Drop(watchers, w)
    /\ last' = [Step("wake", "ok", 0, NoCalls) EXCEPT !.w = w]
    /\ UNCHANGED <<sessionItems, pendingSessionBuild, pendingSessionId,
                   commitCall, pendingAge>>

\* the 20 s are over and the predicate is still false: "Timed out. Reset
\* transaction." The thread holds cvmTransaction here.
WatcherTimeout(w) ==
    /\ w \in DOMAIN watchers
    /\ watchers[w] = 0
    /\ pendingSessionBuild
    /\ resetPendginSessionBuild
    /\ last' = [Step("timeout", "reset", pendingSessionId, NoCalls)
                EXCEPT !.age = pendingAge, !.w = w]
    /\ watchers' = Drop(watchers, w)
    /\ commitCall' = IF commitCall.active
                     THEN [commitCall EXCEPT !.raced = TRUE] ELSE commitCall
    /\ UNCHANGED sessionItems

Max(a, b) == IF a >= b THEN a ELSE b
Min(a, b) == IF a <= b THEN a ELSE b

\* TickLen time units pass
Tick ==
    /\ watchers' = [w \in DOMAIN watchers |-> Max(0, watchers[w] - TickLen)]
    /\ pendingAge' = IF pendingSessionBuild
                     THEN Min(Timeout, pendingAge + TickLen) ELSE pendingAge
    /\ last' = Step("tick", "ok", 0, NoCalls)
    /\ UNCHANGED <<sessionItems, pendingSessionBuild, pendingSessionId,
                   commitCall>>

Next ==
    \/ \E u \in UserNames : \E a \in CreateAddresses :
         \E f \in CleanupFns \cup {NoFn} : \E ts \in StampRuns :
           \E r \in DirectoryReplies(u) : Create(u, a, f, ts, r)
    \/ \E f \in CleanupFns \cup {NoFn} : \E ts \in StampRuns :
         StartTransaction(f, ts)
    \/ \E f \in CleanupFns \cup {NoFn} : \E ts \in StampRuns :
         ObmcsesCreateTransaction(f, ts)
    \/ ResetPendingSessionBuild
    \/ \E u \in UserNames \ {""} : \E a \in Addresses : CommitBegin(u, a)
    \/ \E r \in DirectoryReplies(commitCall.username) : CommitFinish(r)
    \/ \E id \in SessionIds \cup {RemoteId} : \E a \in RemoveArgs(id) :
         Remove(id, a[1], a[2], a[3])
    \/ \E id \in SessionIds : \E h \in BOOLEAN : Close(id, h)
    \/ \E kk \in RemoveAllKeys :
         \E v \in IF kk[1] = "all" THEN {DOMAIN sessionItems}
                  ELSE Visits(sessionItems, kk[1], kk[2]) :
           \E d \in RemoveAllAnswers(kk[1], kk[2]) :
             RemoveAll(kk[1], kk[2], v, d)
    \/ \E w \in 1 .. MaxWatchers : WatcherWake(w)
    \/ \E w \in 1 .. MaxWatchers : WatcherTimeout(w)
    \/ Tick

Spec == Init /\ [][Next]_vars

\* wait_for returns when the 20 s are over, whatever the predicate says:
\* the thread resets the transaction or ends without doing so
WatcherReturn(w) ==
    /\ w \in DOMAIN watchers
    /\ watchers[w] = 0
    /\ (WatcherWake(w) \/ WatcherTimeout(w))

\* time passes, and a watcher whose wait is over gets to run
FairSpec ==
    /\ Init /\ [][Next]_vars
    /\ WF_vars(Tick)
    /\ \A w \in 1 .. MaxWatchers : WF_vars(WatcherReturn(w))

\* The registry used for one session at a time, with clock readings from
\* the whole range of the hash: create renders the identifier, the handle's
\* Close parses it back. The readings include the one that gives the
\* reserved 0 and the one that gives the largest identifier.
AllStamps == 0 .. Modulus - 1
CodecStamps ==
    {t \in AllStamps : t % 8 = 0} \cup
    {t \in AllStamps : idOfStamp(t) \in {0, Modulus - 1}}

CodecNext ==
    \/ /\ sessionItems = <<>>
       /\ \E t \in CodecStamps :
            Create("admin", "10.0.0.1", NoFn, <<t, (t + 1) % Modulus>>, "found")
    \/ \E id \in DOMAIN sessionItems : \E h \in BOOLEAN : Close(id, h)

CodecSpec == Init /\ [][CodecNext]_vars

\* ------------------------------------------------------------- properties
\* the steps of the request thread that end a commitSessionBuild which got
\* as far as the identity directory
CommitEnds == commitCall.active /\ last'.op = "commit"

ValidCall == [NoCall EXCEPT !.username = "admin", !.remoteIPAddr = "10.0.0.1"]

\* C1: when the watcher's wait elapses for a transaction that was started
\* 20 time units ago and neither committed, reset nor removed, the record
\* of the transaction leaves the map and its cleanup callback, if one is
\* attached, is invoked once with the transaction's identifier.
C1_TimeoutRemovesRecord ==
    [][(last'.op = "timeout" /\ pendingAge >= Timeout
          /\ pendingSessionId \in DOMAIN sessionItems)
       => /\ pendingSessionId \notin DOMAIN sessionItems'
          /\ last'.cleaned = dtorCalls(sessionItems[pendingSessionId])]_vars

\* C2: while a transaction is pending, every startTransaction and create
\* fails with a logic error, leaves the map as it is and leaves the pending
\* flag set and the pending identifier unchanged.
C2_LockedWhilePending ==
    [][(pendingSessionBuild /\ last'.op \in {"create", "startTransaction"})
       => /\ last'.res = "logic_error"
          /\ sessionItems' = sessionItems
          /\ pendingSessionBuild'
          /\ pendingSessionId' = pendingSessionId]_vars

C2_Witness ==
    /\ pendingSessionBuild
    /\ last.op = "startTransaction"
    /\ last.res = "logic_error"
    /\ pendingSessionId \in DOMAIN sessionItems

\* C3: a commitSessionBuild(u, a) of the pending transaction with a user u
\* the directory resolves and a non-empty address a, not overtaken by a
\* reset, returns without error, clears the pending flag, keeps the record
\* in the map, and getSessionInfo of the id then reports owner u and
\* address a.
C3_CommitPublishes ==
    [][(CommitEnds /\ last'.reply = "found" /\ commitCall.remoteIPAddr # ""
          /\ ~commitCall.raced)
       => /\ last'.res = "ok"
          /\ ~pendingSessionBuild'
          /\ commitCall.it \in DOMAIN sessionItems'
          /\ getSessionInfo(sessionItems', commitCall.it, NoDiscovery) =
               {[exc |-> "none",
                 info |-> [id |-> commitCall.it,
                           username |-> commitCall.username,
                           remoteAddress |-> commitCall.remoteIPAddr,
                           type |-> OwnType]]}]_vars

C3_Witness ==
    /\ last.op = "commit" /\ last.res = "ok" /\ last.reply = "found"
    /\ ~last.raced /\ ~pendingSessionBuild
    /\ last.id \in DOMAIN sessionItems
    /\ sessionItems[last.id].owner = "admin"
    /\ sessionItems[last.id].remoteIPAddr = "10.0.0.1"

C5_FailedCommitKeepsTransaction ==
    [][(CommitEnds /\ (last'.reply = "error" \/
                       (last'.reply = "found" /\ commitCall.remoteIPAddr = "")))
       => /\ last'.res = "InternalFailure"
          /\ commitCall.it \in DOMAIN sessionItems'
          /\ UNCHANGED <<pendingSessionBuild, pendingSessionId>>
          /\ ~commitCall.raced =>
               /\ pendingSessionBuild' /\ pendingSessionId' = commitCall.it
               /\ LET again == commitSessionBuild(
                                 sessionItems',
                                 [ValidCall EXCEPT !.it = commitCall.it],
                                 "found")
                  IN  /\ again.exc = "none" /\ again.success
                      /\ again.items[commitCall.it].owner = "admin"
                      /\ again.items[commitCall.it].remoteIPAddr = "10.0.0.1"]_vars

C5_Witness ==
    /\ last.op = "commit" /\ last.res = "InternalFailure"
    /\ pendingSessionBuild /\ pendingSessionId = last.id
    /\ last.id \in DOMAIN sessionItems
    /\ sessionItems[last.id].owner = "admin"
    /\ sessionItems[last.id].remoteIPAddr = TransactionAddress

\* C6: commitSessionBuild without a pending transaction fails with the
\* not-pending error (InternalFailure), and with a pending identifier that
\* is not in the map with the not-found error (InvalidArgument); neither
\* changes the map, the records or the pending slot.
C6_CommitWithoutTarget ==
    [][(~commitCall.active /\ last'.op \in {"commit", "commitBegin"})
       => /\ ~pendingSessionBuild => last'.res = "InternalFailure"
          /\ (pendingSessionBuild
                /\ pendingSessionId \notin DOMAIN sessionItems)
               => last'.res = "InvalidArgument"
          /\ (pendingSessionBuild /\ pendingSessionId \in DOMAIN sessionItems)
               => last'.op = "commitBegin"
          /\ UNCHANGED <<sessionItems, pendingSessionBuild,
                         pendingSessionId>>]_vars

C6_WitnessNotPending ==
    /\ last.op = "commit" /\ last.res = "InternalFailure"
    /\ ~pendingSessionBuild /\ sessionItems # <<>>

\* C7: in every step, the cleanup callback is invoked exactly once, with the
\* handle's own identifier, for each handle that leaves the map with a
\* callback attached and was not removed with withCleanup = false, and is
\* invoked for no other handle and with no other argument.
C7_CleanupOnceAtDestruction ==
    [][\A i \in SessionIds :
         last'.cleaned[i] =
           IF /\ i \in DOMAIN sessionItems
              /\ i \notin DOMAIN sessionItems'
              /\ sessionItems[i].cleanupFn # NoFn
              /\ last'.wc
           THEN 1 ELSE 0]_vars

C7_Witness ==
    /\ last.op \in {"remove", "removeAll", "close"}
    /\ \E i \in SessionIds : last.cleaned[i] = 1 /\ i \notin DOMAIN sessionItems

\* C8: the watcher resets the pending slot by timeout only when the
\* transaction in the slot was started at least 20 time units before.
C8_NoEarlyTimeout ==
    last.op = "timeout" => last.age >= Timeout

\* C9: a commitSessionBuild is not reported successful for a transaction
\* that the watcher's timeout has reset while the commit was running.
C9_OneExitPath ==
    ~(last.op = "commit" /\ last.res = "ok" /\ last.raced)

\* C10: every step that changes the record map, the pending flag or the
\* pending identifier is made by a thread that holds cvmTransaction.
C10_MutationsUnderLock ==
    [][(sessionItems' # sessionItems
          \/ pendingSessionBuild' # pendingSessionBuild
          \/ pendingSessionId' # pendingSessionId)
       => last'.locked]_vars

\* C11: a step of remove, removeAll or Close that takes the pending
\* transaction's record out of the map while the transaction is pending
\* leaves the registry idle: the pending flag is cleared.
C11_RemovalEndsTransaction ==
    [][(pendingSessionBuild /\ pendingSessionId \in DOMAIN sessionItems
          /\ last'.op \in {"remove", "removeAll", "close"}
          /\ pendingSessionId \notin DOMAIN sessionItems')
       => ~pendingSessionBuild']_vars

\* C12: when time passes and the watchers get to run, a pending
\* transaction is always followed by a state in which none is pending.
C12_PendingEnds == pendingSessionBuild ~> ~pendingSessionBuild

C12_Witness ==
    /\ last.op = "timeout" /\ last.age >= Timeout
    /\ ~pendingSessionBuild /\ pendingSessionId = 0

C14_UnresolvedCreateLeavesNothing ==
    /\ \A u \in UserNames \ {""} : \A a \in CreateAddresses :
         \A f \in CleanupFns \cup {NoFn} : \A ts \in StampRuns :
           \A r \in DirectoryReplies(u) \ {"found"} :
             ~pendingSessionBuild
             => LET c == IF f = NoFn THEN create(u, a, ts, r)
                         ELSE createWithCleanup(u, a, f, ts, r)
                IN  /\ c.exc = "none" /\ c.id = 0
                    /\ c.items = sessionItems
                    /\ c.cleaned = NoCalls
    /\ (last.op = "create" /\ last.res = "zero")
       => last.id = 0 /\ last.cleaned = NoCalls /\ ~pendingSessionBuild

C14_Witness ==
    /\ last.op = "create" /\ last.res = "zero" /\ last.id = 0
    /\ sessionItems # <<>>

\* the answers of a bus on which every call succeeds
HealthyAnswers == {d \in Discoveries : d.ok /\ d.failing = {}}

\* C15: remove(id, withCleanup, localLookup) of an id in the own map returns
\* true without error whatever the bus would answer, sends no Close
\* request, erases exactly the record of id and leaves the others as they
\* are, and invokes the record's cleanup callback once when withCleanup is
\* true and a callback is attached, and not at all otherwise.
C15_RemoveOwnRecord ==
    /\ \A id \in DOMAIN sessionItems : \A wc \in BOOLEAN : \A l \in BOOLEAN :
         \A d \in Discoveries :
           LET r == remove(sessionItems, id, wc, l, d)
           IN  /\ r.exc = "none" /\ r.ret /\ r.sent = {}
               /\ DOMAIN r.items = DOMAIN sessionItems \ {id}
               /\ \A k \in DOMAIN r.items : r.items[k] = sessionItems[k]
               /\ r.cleaned =
                    [i \in SessionIds |->
                       IF i = id /\ wc /\ sessionItems[id].cleanupFn # NoFn
                       THEN 1 ELSE 0]
    /\ (last.op = "remove" /\ last.res = "true" /\ last.id \in SessionIds)
       => /\ last.id \notin DOMAIN sessionItems
          /\ \A i \in SessionIds : last.cleaned[i] = 1 => (i = last.id /\ last.wc)

C15_Witness ==
    /\ last.op = "remove" /\ last.res = "true" /\ last.wc
    /\ last.id \in SessionIds /\ last.cleaned[last.id] = 1
    /\ last.id \notin DOMAIN sessionItems
    /\ sessionItems # <<>>

\* C16: remove of an id that is not in the own map leaves the map as it is
\* and raises nothing; with localLookup it returns false and sends nothing;
\* without it, it returns true exactly when the discovery finds a session
\* of that id, and then sends one Close(withCleanup) for it.
C16_RemoveForeignId ==
    \A id \in (SessionIds \cup {RemoteId}) \ DOMAIN sessionItems :
      \A wc \in BOOLEAN : \A d \in HealthyAnswers :
        LET loc == remove(sessionItems, id, wc, TRUE, d)
            glob == remove(sessionItems, id, wc, FALSE, d)
            known == \E x \in d.found : x.id = id
        IN  /\ loc.exc = "none" /\ ~loc.ret /\ loc.sent = {}
            /\ loc.items = sessionItems
            /\ glob.exc = "none" /\ glob.ret = known
            /\ glob.sent = IF known THEN {<<id, wc>>} ELSE {}
            /\ glob.items = sessionItems

\* C17: remove of an id that names no session, in the own map or in any
\* other registry, returns false and raises no error in every state.
C17_RemoveUnknownId ==
    \A id \in SessionIds \ DOMAIN sessionItems :
      \A wc \in BOOLEAN : \A l \in BOOLEAN : \A d \in HealthyAnswers :
        LET r == remove(sessionItems, id, wc, l, d)
        IN  r.exc = "none" /\ ~r.ret

\* C18: removeAll(type) with a healthy bus raises nothing, erases every own
\* record of that type and no other, sends one Close to every discovered
\* session of that type and to no other, and returns the number of both.
C18_RemoveAllOfType ==
    \A T \in {OwnType, OtherType} :
      \A v \in Visits(sessionItems, "type", T) : \A d \in HealthyAnswers :
        LET r == removeAllBy(sessionItems, "type", T, v, d)
            own == {k \in DOMAIN sessionItems : sessionItems[k].sessionType = T}
            far == {x \in d.found : x.type = T /\ x.id \notin DOMAIN sessionItems}
        IN  /\ r.exc = "none"
            /\ DOMAIN r.items = DOMAIN sessionItems \ own
            /\ \A k \in DOMAIN r.items : r.items[k] = sessionItems[k]
            /\ r.sent = {<<x.id, TRUE>> : x \in far}
            /\ r.count = Cardinality(own) + Cardinality(far)

\* C19: removeAll(userName) with a healthy bus raises nothing, erases every
\* own record whose owner is userName and no other, sends one Close to
\* every discovered session of that user, and returns the number of both.
C19_RemoveAllOfUser ==
    \A u \in KnownUsers :
      \A v \in Visits(sessionItems, "user", u) : \A d \in HealthyAnswers :
        LET r == removeAllBy(sessionItems, "user", u, v, d)
            own == {k \in DOMAIN sessionItems : sessionItems[k].owner = u}
            far == {x \in d.found : x.username = u
                                      /\ x.id \notin DOMAIN sessionItems}
        IN  /\ r.exc = "none"
            /\ DOMAIN r.items = DOMAIN sessionItems \ own
            /\ \A k \in DOMAIN r.items : r.items[k] = sessionItems[k]
            /\ r.sent = {<<x.id, TRUE>> : x \in far}
            /\ r.count = Cardinality(own) + Cardinality(far)

\* C20: every removeAll function returns a count and raises nothing when
\* the discovery itself answers, whatever fails for a single candidate (an
\* own record without owner, a Close request that fails).
C20_RemoveAllNeverRaises ==
    \A kk \in RemoveAllKeys :
      \A v \in IF kk[1] = "all" THEN {DOMAIN sessionItems}
               ELSE Visits(sessionItems, kk[1], kk[2]) :
        \A d \in {x \in Discoveries : x.ok} :
          LET r == IF kk[1] = "all" THEN removeAllEvery(sessionItems, d)
                   ELSE removeAllBy(sessionItems, kk[1], kk[2], v, d)
          IN  r.exc = "none"

\* C21: a watcher's timeout step is taken only while a transaction is
\* pending and ends that transaction: it clears the pending flag and
\* identifier and ends that one watcher thread, so that no other watcher,
\* however many are alive and however long they have waited, can time the
\* same transaction out again; the flag is set again only by a successful
\* startTransaction.
C21_OneTimeoutPerTransaction ==
    [][/\ last'.op = "timeout"
          => /\ pendingSessionBuild
             /\ ~pendingSessionBuild' /\ pendingSessionId' = 0
             /\ Len(watchers') = Len(watchers) - 1
             /\ \A w \in DOMAIN watchers' :
                  ~(watchers'[w] = 0 /\ pendingSessionBuild')
       /\ (~pendingSessionBuild /\ pendingSessionBuild')
          => last'.op = "startTransaction" /\ last'.res = "ok"]_vars

C21_Witness ==
    /\ last.op = "timeout"
    /\ ~pendingSessionBuild
    /\ Len(watchers) >= 1 /\ watchers[1] = 0

\* user names the identity directory resolves, for a call made on a record
ResolvedNames == KnownUsers \cup {"operator"}

\* C22: a record that has an owner keeps it: neither setSessionMetadata
\* called on its handle (the bus method SetSessionMetadata) nor a further
\* commitSessionBuild of the transaction it belongs to assigns an owner to
\* it again.
C22_OwnerAssignedOnce ==
    \A k \in DOMAIN sessionItems : \A u \in ResolvedNames : \A a \in Addresses :
      sessionItems[k].owner # NoOwner
      => /\ setSessionMetadata(sessionItems[k], u, a, "found").item.owner =
              sessionItems[k].owner
         /\ (pendingSessionBuild /\ pendingSessionId = k)
            => commitSessionBuild(sessionItems,
                                  [NoCall EXCEPT !.username = u,
                                                 !.remoteIPAddr = a, !.it = k],
                                  "found").items[k].owner =
                 sessionItems[k].owner

\* C23: whenever the discovery answers, getAllSessions raises nothing and
\* returns one entry for every record of the own map, flagged as own with
\* the registry's service name and the record's object path, one entry
\* flagged as not own for every discovered session whose id is not in the
\* own map, and nothing else; no two entries have the same id.
C23_GetAllSessionsSnapshot ==
    \A d \in {x \in Discoveries : x.ok} :
      LET all == getAllSessions(sessionItems, d)
      IN  /\ all.exc = "none"
          /\ \A k \in DOMAIN sessionItems :
               \E e \in all.list :
                 /\ e.id = k /\ e.isOwn
                 /\ e.serviceName = ownServiceName
                 /\ e.objectPath = getSessionObjectPath(k)
          /\ \A r \in d.found :
               r.id \notin DOMAIN sessionItems
               => \E e \in all.list : e = r /\ ~e.isOwn
          /\ \A e \in all.list :
               /\ e.isOwn <=> e.id \in DOMAIN sessionItems
               /\ ~e.isOwn => e \in d.found
               /\ \A f \in all.list : f.id = e.id => f = e

\* C24: whatever the clock reads, a create or startTransaction that succeeds
\* returns an identifier that no earlier call has returned: in particular
\* not the identifier of a record that is in the map, so that the new
\* session gets a map entry of its own.
C24_IdentifiersNeverReused ==
    \A ts \in StampRuns : \A f \in CleanupFns \cup {NoFn} :
      ~pendingSessionBuild
      => LET c == IF f = NoFn THEN create("admin", "10.0.0.1", ts, "found")
                  ELSE createWithCleanup("admin", "10.0.0.1", f, ts, "found")
             t == create("", TransactionAddress, ts, "found")
         IN  /\ c.id # 0 => (c.id \notin DOMAIN sessionItems
                               /\ c.items # sessionItems)
             /\ t.id # 0 => (t.id \notin DOMAIN sessionItems
                               /\ t.items # sessionItems)

\* C25: the identifier 0 is never issued: generateSessionId yields it for
\* no clock reading, it is no key of the record map, it is not the pending
\* identifier while a transaction is pending, and a create or
\* startTransaction that returns it has raised or has created no record.
C25_ZeroNeverIssued ==
    /\ \A ts \in StampRuns : generateSessionId(ts) # 0
    /\ 0 \notin DOMAIN sessionItems
    /\ pendingSessionBuild => pendingSessionId # 0
    /\ (last.op \in {"create", "startTransaction"} /\ last.id = 0)
       => last.res # "ok"
    /\ \A u \in UserNames : \A ts \in StampRuns : \A r \in DirectoryReplies(u) :
         LET c == create(u, "10.0.0.1", ts, r)
         IN  c.id = 0 => c.items = sessionItems

\* C26: for every identifier id of the full width, hexSessionId(id) has
\* exactly sizeof(id) * 2 characters, all of them lowercase hexadecimal
\* digits, parseSessionId gives id back from it, and so does
\* retrieveIdFromObjectPath from getSessionObjectPath(id); the sessionID of
\* every record in the map is that text and parses to the record's key.
C26_HexRoundTrip ==
    /\ \A id \in 0 .. Modulus - 1 :
         /\ Len(hexSessionId(id)) = HexWidth
         /\ \A i \in 1 .. HexWidth :
              \E j \in 1 .. 16 : hexSessionId(id)[i] = HexChars[j]
         /\ parseSessionId(hexSessionId(id)) = id
         /\ retrieveIdFromObjectPath(getSessionObjectPath(id)) = id
    /\ \A k \in DOMAIN sessionItems :
         /\ sessionItems[k].sessionID = hexSessionId(k)
         /\ parseSessionId(sessionItems[k].sessionID) = k

C26_Witness ==
    /\ 10 \in DOMAIN sessionItems
    /\ Len(sessionItems[10].sessionID) = HexWidth
    /\ Head(sessionItems[10].sessionID) = "0"
    /\ sessionItems[10].sessionID[HexWidth] = "a"
    /\ last.op = "create" /\ last.id = 10

\* the values std::hash<std::string> can give for a service name
NameHashes == 0 .. Modulus - 1

\* C27: the identifier of a session of this registry is not the one that a
\* registry whose service name has another hash computes for the clock
\* reading the session was created at.
C27_DistinctSlugsDistinctIds ==
    \A k \in DOMAIN sessionItems : \A t \in TimeHashes :
      idOfStamp(t) = k
      => \A h \in NameHashes \ {serviceNameHash} : sessionIdOf(t, h) # k

\* C28: a setSessionMetadata on a record's handle that raises, and a
\* commitSessionBuild of the pending transaction that reports a failure,
\* leave the record as it was: owner, remote address and the rest.
C28_FailedCommitChangesNothing ==
    \A k \in DOMAIN sessionItems : \A u \in UserNames \ {""} :
      \A a \in Addresses : \A r \in DirectoryReplies(u) :
        LET m == setSessionMetadata(sessionItems[k], u, a, r)
            c == commitSessionBuild(sessionItems,
                                    [NoCall EXCEPT !.username = u,
                                                   !.remoteIPAddr = a,
                                                   !.it = k], r)
        IN  /\ m.exc # "none" => m.item = sessionItems[k]
            /\ (pendingSessionBuild /\ pendingSessionId = k /\ c.exc # "none")
               => c.items = sessionItems

\* C29: whenever no transaction is pending, every record of the map has an
\* owner.
C29_NoOwnerlessRecordWhenIdle ==
    ~pendingSessionBuild
    => \A k \in DOMAIN sessionItems : sessionItems[k].owner # NoOwner

\* C30: whenever a transaction is pending, the pending identifier is not 0
\* and is the key of a record in the map.
C30_PendingNamesRecord ==
    isSessionBuildPending
    => pendingSessionId # 0 /\ pendingSessionId \in DOMAIN sessionItems

\* C31: in every state of the registry, getAllSessions raises nothing when
\* the bus answers, and getSessionInfo of the id of a record of the own map
\* raises nothing whatever the bus answers: also while a transaction is
\* pending and its record has no owner yet.
C31_EnumerationNeverRaises ==
    /\ \A d \in HealthyAnswers : getAllSessions(sessionItems, d).exc = "none"
    /\ \A k \in DOMAIN sessionItems : \A d \in Discoveries :
         \A o \in getSessionInfo(sessionItems, k, d) : o.exc = "none"

\* C32: a start-transaction request through the C adaptor that is made
\* while a transaction is pending is rejected and leaves that transaction
\* as it is: the pending flag stays set, the pending identifier and the
\* record map are unchanged.
C32_RejectedStartKeepsTransaction ==
    [][(pendingSessionBuild /\ last'.op = "obmcsesCreateTransaction")
       => /\ last'.res = "EPERM"
          /\ pendingSessionBuild'
          /\ pendingSessionId' = pendingSessionId
          /\ sessionItems' = sessionItems]_vars

\* C33: when commitSessionBuild tears down the pending record because the
\* directory does not know the user, a cleanup callback attached to the
\* record is not invoked: the record leaves the map exactly as by
\* remove(id, withCleanup = false, localLookup = true), whatever the bus
\* would answer to a discovery.
C33_UnknownUserSkipsCleanup ==
    [][(CommitEnds /\ last'.reply = "empty"
          /\ sessionItems[commitCall.it].cleanupFn # NoFn)
       => /\ commitCall.it \notin DOMAIN sessionItems'
          /\ last'.cleaned = NoCalls
          /\ \A d \in Discoveries :
               LET r == remove(sessionItems, commitCall.it, FALSE, TRUE, d)
               IN  sessionItems' = r.items /\ r.sent = {}]_vars

C33_Witness ==
    /\ commitCall.active /\ commitCall.username = "ghost"
    /\ commitCall.it \in DOMAIN sessionItems
    /\ sessionItems[commitCall.it].cleanupFn # NoFn
    /\ LET c == commitSessionBuild(sessionItems, commitCall, "empty")
       IN  c.cleaned = NoCalls /\ commitCall.it \notin DOMAIN c.items

\* C34: when the last external reference to the registry is dropped
\* (obmcsesManagerClose) and no watcher thread is running, the registry is
\* destroyed together with every session it still owns, and the cleanup
\* callback of each of those sessions is invoked once.
C34_CloseDestroysRegistry ==
    watchers = NoWatchers
    => LET r == obmcsesManagerClose(sessionItems, watchers)
       IN  /\ r.destroyed
           /\ DOMAIN r.items = {}
           /\ r.cleaned = destroyAll(sessionItems, DOMAIN sessionItems)

\* C35: SessionItem::close(withCleanup) on a handle whose record is not in
\* its registry's map fails with InternalFailure, sends nothing to the bus,
\* leaves the map as it is, invokes no callback and leaves the handle,
\* its cleanup callback included, as it was before the call; a close(true)
\* retried when the record is in the map then invokes that callback once.
C35_FailedCloseRestoresCallback ==
    \A k \in DOMAIN sessionItems : \A h \in BOOLEAN :
      LET this == sessionItems[k]
          others == erase(sessionItems, {k})
          r == close(others, this, h)
          again == close(emplace(r.items, k, r.this), r.this, TRUE)
      IN  /\ r.exc = "InternalFailure"
          /\ r.this = this
          /\ r.items = others /\ r.cleaned = NoCalls /\ r.sent = {}
          /\ again.exc = "none" /\ again.sent = {}
          /\ again.cleaned = [i \in SessionIds |->
                                IF i = k /\ this.cleanupFn # NoFn
                                THEN 1 ELSE 0]

C35_Witness ==
    \E k \in DOMAIN sessionItems :
      /\ sessionItems[k].cleanupFn # NoFn
      /\ DOMAIN sessionItems # {k}
      /\ LET r == close(erase(sessionItems, {k}), sessionItems[k], FALSE)
         IN  /\ r.exc = "InternalFailure"
             /\ r.this.cleanupFn = sessionItems[k].cleanupFn

\* C36: getSessionInfo of an id that is neither in the own map nor among
\* the sessions the bus reports, the reserved id 0 included, raises the
\* not-found error (invalid_argument) and has no other outcome: it never
\* returns normally with a result that was not filled in.
C36_GetSessionInfoNotFound ==
    \A id \in ({0} \cup SessionIds \cup {RemoteId}) \ DOMAIN sessionItems :
      \A d \in {x \in Discoveries : x.ok /\ \A r \in x.found : r.id # id} :
        \A o \in getSessionInfo(sessionItems, id, d) :
          o.exc = "invalid_argument"

parseFails(s) == parseSessionId(s) \in {ParseError, RangeError}

\* C37: parseSessionId raises invalid_argument or out_of_range for every
\* text that is not the hexadecimal rendering of an identifier: the empty
\* text, a text with a character that is no hexadecimal digit before, in
\* or after the digits (here: put around the sessionID of a record), and
\* digits that denote a value above the largest identifier.
C37_ParseRejectsMalformed ==
    /\ parseFails(<<>>)
    /\ parseFails(<<"g">>)
    /\ \A k \in DOMAIN sessionItems :
         LET id == sessionItems[k].sessionID
         IN  /\ parseFails(<<"g">> \o id)
             /\ parseFails(<<"1">> \o id)
             /\ parseFails(id \o <<"g">>)
             /\ parseFails(<<Head(id), "g">> \o Tail(id))
             /\ parseFails(<<" ">> \o id)
             /\ parseFails(<<"-">> \o id)

\* what the bus answers to a registry that discovered a peer's session
\* which another registry closes first: the session is found, the Close
\* sent for it comes back with an error
LateClose == [ok |-> TRUE, found |-> RemoteSessions, failing |-> {RemoteId}]

\* C38: of two Close requests for one session, the first tears the session
\* down: in the owning registry exactly that record leaves the map, every
\* other record stays as it is and the session's callback is invoked at
\* most once, no other callback at all; the later request finds no session
\* and, in the registry that sent it from a removeAll function, does not
\* end the function with the error of that request.
C38_ConcurrentCloseHarmless ==
    /\ \A k \in DOMAIN sessionItems : \A h \in BOOLEAN :
         LET r == close(sessionItems, sessionItems[k], h)
         IN  /\ r.exc = "none"
             /\ r.items = erase(sessionItems, {k})
             /\ \A i \in SessionIds :
                  r.cleaned[i] <= (IF i = k THEN 1 ELSE 0)
    /\ \A kk \in RemoveAllKeys :
         \A v \in IF kk[1] = "all" THEN {DOMAIN sessionItems}
                  ELSE Visits(sessionItems, kk[1], kk[2]) :
           LET r == IF kk[1] = "all" THEN removeAllEvery(sessionItems, LateClose)
                    ELSE removeAllBy(sessionItems, kk[1], kk[2], v, LateClose)
           IN  r.exc # "SdBusError"

\* the functions that ask the identity directory for a user, query the bus
\* for the sessions of other services or send Close to one of them
RemoteOps == {"create", "commitBegin", "commit", "remove", "removeAll"}

C40_WatcherTerminates ==
    /\ \A w \in 1 .. MaxWatchers :
         (Len(watchers) >= w /\ watchers[w] = 0)
           ~> (last.op \in {"wake", "timeout"} /\ last.w \in 1 .. w)
    /\ [](\A w \in DOMAIN watchers : watchers[w] \in 0 .. Timeout)
    /\ [][last'.op = "timeout"
           => /\ last'.w \in DOMAIN watchers
              /\ watchers[last'.w] = 0
              /\ Len(watchers') = Len(watchers) - 1
              /\ watchers' = Drop(watchers, last'.w)]_vars

\* a thread has reset the transaction after its 20 units and is gone, no
\* thread is left
C40_Witness ==
    /\ last.op = "timeout"
    /\ last.w = 1
    /\ last.age >= Timeout
    /\ watchers = NoWatchers
    /\ ~pendingSessionBuild

====
